---- MODULE Spec2Model ----
(***************************************************************************)
(* TripGenie: the sequential pipeline of src/agent (base_agent.py,         *)
(* agents.py, workflow.py, models.py, config.py, utils.py).                *)
(*                                                                         *)
(* Encoding of Python values:                                              *)
(*   dict            a function whose DOMAIN is the dict's key set         *)
(*   None / x        Optional values are <<>> (None) or <<x>> (a value)    *)
(*   date            the proleptic ordinal of the day (date.toordinal())   *)
(*   float           integers in a fixed unit named at each use            *)
(*   exception text  a record [text, detail]                               *)
(***************************************************************************)
EXTENDS Integers, Sequences, FiniteSets, TLC

VARIABLES
    settings,    \* config.settings, the process-wide Settings instance
    agents,      \* tripgenie_workflow.workflow.agents: the stage instances' fields
    input,       \* per run: the user_preferences dict given to generate_itinerary
    pc,          \* per run: position of the generate_itinerary coroutine
    idx,         \* per run: loop index i of SequentialAgent.run (1-based)
    cur,         \* per run: current_data of SequentialAgent.run
    log,         \* per run: the stage invocations made so far, in order
    runResult,   \* per run: what SequentialAgent.run returned (Optional)
    response,    \* per run: what generate_itinerary returned (Optional)
    elapsed,     \* per run: seconds spent inside the stage being executed
    probe,       \* a stage instance invoked directly through BaseAgent.run
    world        \* the behaviours the collaborators can show in this execution

vars == <<settings, agents, input, pc, idx, cur, log, runResult, response,
          elapsed, probe, world>>

(***************************************************************************)
(* Bounds of the model                                                     *)
(***************************************************************************)
\* largest valid trip duration the inputs are drawn from
MaxDays == 3

Runs == {1, 2}

(***************************************************************************)
(* Python values                                                           *)
(***************************************************************************)
None == <<>>
Some(x) == <<x>>
IsSome(o) == Len(o) > 0
Val(o) == o[1]

EmptyBag == <<>>
Get(d, k, default) == IF k \in DOMAIN d THEN d[k] ELSE default
\* {k: v}, the received bag left out
PutAlone(d, k, v) == [x \in {k} |-> v]

\* {**d, k: v}
Put(d, k, v) == [x \in (DOMAIN d) \cup {k} |-> IF x = k THEN v ELSE d[x]]

Min(a, b) == IF a <= b THEN a ELSE b
Abs(a) == IF a < 0 THEN 0 - a ELSE a
Take(s, n) == SubSeq(s, 1, Min(n, Len(s)))
\* s[a:b] of Python, 0-based half-open, clipped to the list
Slice(s, a, b) == SubSeq(s, Min(a, Len(s)) + 1, Min(b, Len(s)))

\* str(e) of an exception
Msg(text, detail) == [text |-> text, detail |-> detail]

\* the permutation that list.sort(key=...) applies: ascending by key, equal
\* keys keep their order. keys[i] is a pair compared lexicographically.
KeyLess(a, b) == a[1] < b[1] \/ (a[1] = b[1] /\ a[2] < b[2])
SortRank(keys, i) ==
    Cardinality({j \in 1..Len(keys) :
                    KeyLess(keys[j], keys[i]) \/ (keys[j] = keys[i] /\ j < i)}) + 1
SortedByRank(s, rank) ==
    [k \in 1..Len(s) |-> s[CHOOSE i \in 1..Len(s) : rank[i] = k]]
SortedBy(s, keys) ==
    SortedByRank(s, [i \in 1..Len(s) |-> SortRank(keys, i)])

(***************************************************************************)
(* config.py: Settings                                                     *)
(***************************************************************************)
max_search_queries == 5
max_results_per_query == 10
max_total_places == 60
agent_timeout_seconds == 12
\* ranking weights 0.6 and 0.4, in tenths
ranking_relevance_weight == 6
ranking_popularity_weight == 4
\* percent
precipitation_avoid_threshold == 60

DefaultSettings ==
    [max_search_queries |-> max_search_queries,
     max_results_per_query |-> max_results_per_query,
     max_total_places |-> max_total_places,
     agent_timeout_seconds |-> agent_timeout_seconds,
     ranking_relevance_weight |-> ranking_relevance_weight,
     ranking_popularity_weight |-> ranking_popularity_weight,
     precipitation_avoid_threshold |-> precipitation_avoid_threshold]

\* Settings is a BaseSettings: every field can be overridden from the
\* environment. AGENT_TIMEOUT_SECONDS=0 is the override under which
\* asyncio.wait_for raises TimeoutError without running the coroutine.
\* MAX_SEARCH_QUERIES=4, MAX_RESULTS_PER_QUERY=3 and MAX_TOTAL_PLACES=4 are
\* overrides under which each cap of the discovery cuts something.
SettingsChoices ==
    {DefaultSettings,
     [DefaultSettings EXCEPT !.agent_timeout_seconds = 0],
     [DefaultSettings EXCEPT !.max_search_queries = 4,
                             !.max_results_per_query = 3,
                             !.max_total_places = 4]}

(***************************************************************************)
(* datetime.date                                                           *)
(***************************************************************************)
\* date.max.toordinal(): date + timedelta beyond it raises OverflowError
DateMax == 3652059
\* date.today(), 2026-01-01
Today == 739617
DateOverflows(d, days) == d + days > DateMax

(***************************************************************************)
(* models.py                                                               *)
(***************************************************************************)
MinDuration == 1
MaxDuration == 30
BudgetValues == {"low", "medium", "high"}
TravelStyleValues == {"relaxed", "moderate", "packed"}
DefaultInterests == <<"sightseeing", "culture", "food">>

\* interest.swapcase().strip()
LowerStripSwapcase(s) ==
    CASE s = " Art " -> "aRT"
      [] s = "aRT" -> "Art"
      [] s = "Art" -> "aRT"
      [] s = "PARK" -> "park"
      [] s = "park" -> "PARK"
      [] OTHER -> s

\* interest.lower().strip()
LowerStrip(s) ==
    CASE s = " Art " -> "art"
      [] s = "PARK" -> "park"
      [] OTHER -> s

\* @validator('interests'): runs only when the key is supplied
validate_interests(v) ==
    IF Len(v) = 0 THEN DefaultInterests
    ELSE [i \in 1..Len(v) |-> LowerStrip(v[i])]

\* the fields of d that UserPreferences(**d) rejects
PreferenceErrors(d) ==
    {f \in {"destination", "duration_days"} : f \notin DOMAIN d}
    \cup (IF "duration_days" \in DOMAIN d
             /\ (d.duration_days < MinDuration \/ d.duration_days > MaxDuration)
          THEN {"duration_days"} ELSE {})
    \cup (IF "budget" \in DOMAIN d /\ d.budget \notin BudgetValues
          THEN {"budget"} ELSE {})
    \cup (IF "travel_style" \in DOMAIN d /\ d.travel_style \notin TravelStyleValues
          THEN {"travel_style"} ELSE {})

\* UserPreferences(**d).dict() when d is accepted; keys of d that are not
\* fields are ignored
UserPreferences(d) ==
    [destination |-> d.destination,
     origin |-> Get(d, "origin", None),
     duration_days |-> d.duration_days,
     interests |-> IF "interests" \in DOMAIN d
                   THEN validate_interests(d.interests) ELSE <<>>,
     budget |-> Get(d, "budget", "medium"),
     travel_style |-> Get(d, "travel_style", "moderate"),
     start_date |-> Get(d, "start_date", None)]

AgentInput(data, metadata) == [data |-> data, metadata |-> metadata]

AgentOutput(data, metadata, success, error) ==
    [data |-> data, metadata |-> metadata, success |-> success, error |-> error]

(***************************************************************************)
(* What a coroutine does when awaited: it returns a value, raises, or      *)
(* never gives control back (a blocking call that does not complete).      *)
(***************************************************************************)
Return(out) == [kind |-> "return", output |-> out]
Raise(msg) == [kind |-> "raise", msg |-> msg]
Hang == [kind |-> "hang"]

KeyError(k) == Raise(Msg("KeyError", {k}))
ValidationError(fields) == Raise(Msg("ValidationError", fields))
OverflowError == Raise(Msg("date value out of range", {}))

(***************************************************************************)
(* utils.py: the collaborators. w is the behaviour of the outside world    *)
(* during one stage invocation.                                            *)
(***************************************************************************)
GeoModes == {"all", "destination_only", "none", "hang"}
SearchModes == {"none", "hits", "no_geometry", "hang"}
ForecastModes == {"empty", "wttr", "fallback"}
LlmModes == {"fault", "prose", "malformed", "scores", "short", "long", "hang"}

QuietWorld == [geo |-> "none", search |-> "none", forecast |-> "empty", llm |-> "fault"]

\* latitude and longitude in thousandths of a degree
ParisLat == 48857
ParisLng == 2352

FormattedAddress(name) ==
    CASE name = "Paris" -> "Paris, France"
      [] name = "London" -> "London, UK"
      [] OTHER -> name

\* geocode_location: Optional dict
geocode_location(w, location_name) ==
    IF w.geo = "all" \/ (w.geo = "destination_only" /\ location_name = "Paris")
    THEN Some([name |-> FormattedAddress(location_name),
               address |-> FormattedAddress(location_name),
               latitude |-> IF location_name = "Paris" THEN ParisLat ELSE 51507,
               longitude |-> IF location_name = "Paris" THEN ParisLng ELSE 0 - 128,
               place_id |-> Some(location_name)])
    ELSE None

\* one result of the Places text search
Hit(id, name, geometry, types, rating) ==
    [place_id |-> id, name |-> name, formatted_address |-> name,
     geometry |-> geometry, types |-> types, rating |-> rating, vicinity |-> "Paris"]

\* a point dlat thousandths of a degree north of Paris, same meridian
North(dlat) == Some([lat |-> ParisLat + dlat, lng |-> ParisLng])

Louvre == Hit(Some("p1"), "Louvre", North(10),
              <<"museum", "tourist_attraction", "point_of_interest", "establishment">>,
              Some(47))
Tuileries == Hit(Some("p2"), "Tuileries", North(20), <<"park", "tourist_attraction">>, Some(45))
Versailles == Hit(Some("p3"), "Versailles", North(0 - 405), <<"historic_site", "museum">>, Some(46))
Giverny == Hit(Some("p4"), "Giverny", North(2250), <<"art_gallery", "garden">>, None)
Kiosk == Hit(None, "Kiosk", North(5), <<"cafe">>, Some(47))
Stall == Hit(None, "Stall", North(6), <<>>, None)
Broken == Hit(Some("p9"), "Broken", None, <<"museum">>, Some(50))

\* a search that finds ManyPerQuery places of its own for every query, the
\* i-th of them i thousandths of a degree north of Paris and rated 3.0 + i/10
ManyPerQuery == 12
ManyHit(query, i) ==
    Hit(Some(query.what \o "#" \o ToString(i)), query.what \o " " \o ToString(i), North(i),
        IF i % 2 = 0 THEN <<"park">> ELSE <<"museum">>, Some(30 + i))

IsGeneric(query) == query.what \in {"tourist attractions", "things to do"}

\* fetch_google_places: a list of results, [] on any failure
fetch_google_places(w, query) ==
    CASE w.search = "hits" ->
            IF IsGeneric(query)
            THEN <<Louvre, Tuileries, Versailles, Louvre>>
            ELSE <<Tuileries, Giverny, Kiosk, Stall>>
      [] w.search = "many" -> [i \in 1..ManyPerQuery |-> ManyHit(query, i)]
      [] w.search = "no_geometry" -> <<Louvre, Broken>>
      [] OTHER -> <<>>

\* haversine_distance in metres, for two points on the same meridian:
\* R * radians(dlat) with R = 6371 km is 111.195 m per thousandth of a degree
MetresPerMilliDegree == 111195
haversine_distance(lat1, lon1, lat2, lon2) ==
    (MetresPerMilliDegree * Abs(lat2 - lat1)) \div 1000

(***************************************************************************)
(* agents.py: InputValidatorAgent.process                                  *)
(***************************************************************************)
\* if not prefs.start_date: prefs.start_date = date.today() + timedelta(days=7)
WithStartDate(prefs) ==
    IF IsSome(prefs.start_date) THEN prefs
    ELSE [prefs EXCEPT !.start_date = Some(Today + 7)]

\* the origin is geocoded only if one is given
OriginLocation(prefs, w) ==
    IF IsSome(prefs.origin) /\ Val(prefs.origin) # ""
    THEN geocode_location(w, Val(prefs.origin)) ELSE None

\* a stage that also fails when the origin given cannot be geocoded
ValidateParsedStrictOrigin(prefs, destination_data, w) ==
    IF ~IsSome(destination_data)
       \/ (IsSome(prefs.origin) /\ ~IsSome(OriginLocation(prefs, w)))
    THEN Return(AgentOutput(EmptyBag, EmptyBag, FALSE,
                            Some(Msg("Could not geocode destination", {prefs.destination}))))
    ELSE Return(AgentOutput(
            [preferences |-> WithStartDate(prefs),
             destination_location |-> Val(destination_data),
             origin_location |-> OriginLocation(prefs, w)],
            [validated |-> TRUE, geocoded |-> TRUE],
            TRUE, None))

\* the stage once the preferences are parsed
ValidateParsed(prefs, destination_data, w) ==
    IF ~IsSome(destination_data)
    THEN Return(AgentOutput(EmptyBag, EmptyBag, FALSE,
                            Some(Msg("Could not geocode destination", {prefs.destination}))))
    ELSE Return(AgentOutput(
            [preferences |-> WithStartDate(prefs),
             destination_location |-> Val(destination_data),
             origin_location |-> OriginLocation(prefs, w)],
            [validated |-> TRUE, geocoded |-> TRUE],
            TRUE, None))

InputValidatorAgent(input_data, w) ==
    IF PreferenceErrors(input_data.data) # {}
    THEN Return(AgentOutput(EmptyBag, EmptyBag, FALSE,
                            Some(Msg("Invalid user preferences",
                                     PreferenceErrors(input_data.data)))))
    ELSE IF w.geo = "hang" THEN Hang
    ELSE ValidateParsed(UserPreferences(input_data.data),
                        geocode_location(w, input_data.data.destination), w)

\* UserPreferences(**input_data.data["preferences"]) as the later stages do
\* it: Return(prefs), or the KeyError / ValidationError it raises
ParsePreferences(data) ==
    IF "preferences" \notin DOMAIN data THEN KeyError("preferences")
    ELSE IF PreferenceErrors(data.preferences) # {}
    THEN ValidationError(PreferenceErrors(data.preferences))
    ELSE Return(UserPreferences(data.preferences))

(***************************************************************************)
(* agents.py: RouteExplorerAgent.process                                   *)
(***************************************************************************)
\* Place(...).dict() for one search result
PlaceOf(place_data) ==
    [name |-> place_data.name,
     location |-> [name |-> place_data.name,
                   address |-> place_data.formatted_address,
                   latitude |-> Val(place_data.geometry).lat,
                   longitude |-> Val(place_data.geometry).lng,
                   place_id |-> place_data.place_id],
     category |-> Take(place_data.types, 3),
     rating |-> place_data.rating,
     description |-> Some(place_data.vicinity),
     popularity_score |-> 0,
     relevance_score |-> 0,
     distance_from_route |-> None]

\* the search queries, in order: one per interest, then the two generic ones
SearchQueries(prefs, dest_location) ==
    [i \in 1..Len(prefs.interests) |->
        [what |-> prefs.interests[i], where |-> dest_location.name]]
    \o <<[what |-> "tourist attractions", where |-> dest_location.name],
         [what |-> "things to do", where |-> dest_location.name]>>

\* an inner loop that maps every result it meets
CollectEveryHit(h, acc) ==
    IF ~IsSome(h.geometry) THEN [acc EXCEPT !.broken = TRUE]
    ELSE [acc EXCEPT !.places = Append(@, PlaceOf(h))]

\* one result of the inner loop; acc is [places, seen, broken, queries]:
\* broken when a result without geometry is mapped
CollectHit(h, acc) ==
    IF h.place_id \in acc.seen THEN acc
    ELSE IF ~IsSome(h.geometry)
    THEN [acc EXCEPT !.seen = @ \cup {h.place_id}, !.broken = TRUE]
    ELSE [acc EXCEPT !.seen = @ \cup {h.place_id},
                     !.places = Append(@, PlaceOf(h))]

\* the inner loop over places_data[:max_per_query]
RECURSIVE CollectHits(_, _, _)
CollectHits(hits, acc, max_total) ==
    IF hits = <<>> \/ acc.broken \/ Len(acc.places) >= max_total THEN acc
    ELSE CollectHits(Tail(hits), CollectHit(Head(hits), acc), max_total)

\* the outer loop over search_queries[:max_queries]
RECURSIVE CollectQueries(_, _, _, _)
CollectQueries(queries, acc, w, s) ==
    IF queries = <<>> \/ acc.broken \/ Len(acc.places) >= s.max_total_places THEN acc
    ELSE CollectQueries(Tail(queries),
                        CollectHits(Take(fetch_google_places(w, Head(queries)),
                                         s.max_results_per_query),
                                    [acc EXCEPT !.queries = @ + 1], s.max_total_places),
                        w, s)

\* a discovery that issues every query it built
DiscoverEveryQuery(prefs, dest_location, w, s) ==
    CollectQueries(SearchQueries(prefs, dest_location),
                   [places |-> <<>>, seen |-> {}, broken |-> FALSE, queries |-> 0], w, s)

Discover(prefs, dest_location, w, s) ==
    CollectQueries(Take(SearchQueries(prefs, dest_location), s.max_search_queries),
                   [places |-> <<>>, seen |-> {}, broken |-> FALSE, queries |-> 0], w, s)

\* a stage for which finding no place is a failure
ExploredOrFails(data, found) ==
    IF found.broken THEN KeyError("geometry")
    ELSE IF found.places = <<>>
    THEN Return(AgentOutput(EmptyBag, EmptyBag, FALSE, Some(Msg("No places found", {}))))
    ELSE Return(AgentOutput(Put(data, "places", found.places),
                            [places_count |-> Len(found.places)],
                            TRUE, None))

\* the stage's result for what the loops collected
Explored(data, found) ==
    IF found.broken THEN KeyError("geometry")
    ELSE Return(AgentOutput(Put(data, "places", found.places),
                            [places_count |-> Len(found.places)],
                            TRUE, None))

\* the stage once the preferences are parsed
ExploreParsed(data, p, w, s) ==
    IF p.kind # "return" THEN p
    ELSE IF "destination_location" \notin DOMAIN data
    THEN KeyError("destination_location")
    ELSE IF w.search = "hang" THEN Hang
    ELSE Explored(data, Discover(p.output, data.destination_location, w, s))

RouteExplorerAgent(input_data, w, s) ==
    ExploreParsed(input_data.data, ParsePreferences(input_data.data), w, s)

(***************************************************************************)
(* agents.py: DistanceEvaluatorAgent.process                               *)
(***************************************************************************)
\* style_multiplier, in tenths
StyleMultiplier(style) ==
    CASE style = "relaxed" -> 8
      [] style = "packed" -> 13
      [] OTHER -> 10

\* int(duration_days * 40 * style_multiplier) without the ceiling
MaxDistanceUnclamped(prefs) ==
    (prefs.duration_days * 40 * StyleMultiplier(prefs.travel_style)) \div 10

\* min(int(duration_days * 40 * style_multiplier), 200), kilometres
MaxDistance(prefs) ==
    Min((prefs.duration_days * 40 * StyleMultiplier(prefs.travel_style)) \div 10, 200)

\* place.distance_from_route = distance, in metres
Measured(dest, places) ==
    [i \in 1..Len(places) |->
        [places[i] EXCEPT !.distance_from_route =
            Some(haversine_distance(dest.latitude, dest.longitude,
                                    places[i].location.latitude,
                                    places[i].location.longitude))]]

\* the places within max_distance kilometres
WithinDistance(places, max_distance) ==
    SelectSeq(places, LAMBDA q : Val(q.distance_from_route) <= max_distance * 1000)

\* filtered_places.sort(key=lambda x: x.distance_from_route or 0)
SortByDistance(places) ==
    SortedBy(places, [i \in 1..Len(places) |-> <<Val(places[i].distance_from_route), 0>>])

\* the stage's result for the surviving places
Evaluated(data, filtered_places, max_distance) ==
    Return(AgentOutput(Put(data, "places", filtered_places),
                       [filtered_count |-> Len(filtered_places),
                        max_distance_km |-> max_distance],
                       TRUE, None))

\* the stage once the preferences are parsed
EvaluateParsed(data, p) ==
    IF p.kind # "return" THEN p
    ELSE Evaluated(data,
                   SortByDistance(WithinDistance(Measured(data.destination_location, data.places),
                                                 MaxDistance(p.output))),
                   MaxDistance(p.output))

DistanceEvaluatorAgent(input_data, w, s) ==
    IF "destination_location" \notin DOMAIN input_data.data
    THEN KeyError("destination_location")
    ELSE IF "places" \notin DOMAIN input_data.data THEN KeyError("places")
    ELSE EvaluateParsed(input_data.data, ParsePreferences(input_data.data))

(***************************************************************************)
(* agents.py: WeatherOptimizerAgent.process                                *)
(***************************************************************************)
\* one forecast record; pop is kept in hundredths, so that
\* precipitation_chance = pop * 100 is the same number
ForecastItem(pop) ==
    [main |-> [temp_min |-> 18, temp_max |-> 26],
     weather |-> [main |-> "Clear", description |-> "clear sky"],
     pop |-> pop]

\* chance of rain, percent, of the days wttr.in knows about
WttrPops == <<70, 10, 40>>

\* fetch_google_weather_forecast: at most `days` records, never raises
fetch_google_weather_forecast(w, lat, lon, days) ==
    CASE w.forecast = "wttr" ->
            [i \in 1..Min(days, Len(WttrPops)) |-> ForecastItem(WttrPops[i])]
      [] w.forecast = "fallback" -> [i \in 1..days |-> ForecastItem(10)]
      [] OTHER -> <<>>

\* the day offsets for which a Weather record is built
ForecastOffsets(duration_days, n) ==
    {day_offset \in 0..(duration_days - 1) : day_offset * 8 < n}

\* Weather(...).dict() for the day at day_offset
WeatherOf(day_forecast, day_date) ==
    [date |-> day_date,
     condition |-> day_forecast.weather.main,
     temperature_max |-> day_forecast.main.temp_max,
     temperature_min |-> day_forecast.main.temp_min,
     precipitation_chance |-> day_forecast.pop,
     description |-> day_forecast.weather.description]

\* daily_weather after the loop over range(duration_days)
DailyWeather(weather_data, current_date, duration_days) ==
    IF weather_data = <<>> THEN <<>>
    ELSE [k \in 1..Cardinality(ForecastOffsets(duration_days, Len(weather_data))) |->
            WeatherOf(weather_data[(k - 1) * 8 + 1], current_date + (k - 1))]

\* the stage returning only the key it computed
ForecastedAlone(data, prefs, weather_data, current_date) ==
    Return(AgentOutput(
        PutAlone(data, "weather_forecast",
                 DailyWeather(weather_data, current_date, prefs.duration_days)),
        EmptyBag, TRUE, None))

\* the stage once the forecast is fetched
Forecasted(data, prefs, weather_data, current_date) ==
    IF weather_data # <<>> /\ DateOverflows(current_date, prefs.duration_days - 1)
    THEN OverflowError
    ELSE Return(AgentOutput(
            Put(data, "weather_forecast",
                DailyWeather(weather_data, current_date, prefs.duration_days)),
            [weather_days |-> Len(DailyWeather(weather_data, current_date,
                                               prefs.duration_days))],
            TRUE, None))

\* the stage once the preferences are parsed
ForecastParsed(data, p, w) ==
    IF p.kind # "return" THEN p
    ELSE Forecasted(data, p.output,
                    fetch_google_weather_forecast(w, data.destination_location.latitude,
                                                  data.destination_location.longitude,
                                                  p.output.duration_days),
                    IF IsSome(p.output.start_date) THEN Val(p.output.start_date) ELSE Today)

WeatherOptimizerAgent(input_data, w, s) ==
    IF "destination_location" \notin DOMAIN input_data.data
    THEN KeyError("destination_location")
    ELSE ForecastParsed(input_data.data, ParsePreferences(input_data.data), w)

(***************************************************************************)
(* agents.py: PlaceRankerAgent.process                                     *)
(***************************************************************************)
\* places[:30] of the prompt and of the rating fallback
PromptLimit == 30

\* (p.rating or 0) * 20, rating in tenths
RatingScore(place) == IF IsSome(place.rating) THEN Val(place.rating) * 2 ELSE 0

\* what re.search(r'\[[\d,\s]+\]', response) and json.loads make of the
\* collaborator's answer for n prompted places: Some(scores), None when no
\* array is found. "malformed" (an array json.loads rejects) and "fault"
\* raise instead and are handled by the caller.
ParsedScores(w, n) ==
    CASE w.llm = "scores" /\ n > 0 -> Some([i \in 1..n |-> 10 * i])
      [] w.llm = "short" -> Some(<<90>>)
      [] w.llm = "long" -> Some([i \in 1..(n + 2) |-> 100 - i])
      [] OTHER -> None

\* relevance * rw + popularity * pw, in tenths
Composite(place, s) ==
    place.relevance_score * s.ranking_relevance_weight
    + place.popularity_score * s.ranking_popularity_weight

\* places.sort(key=composite, reverse=True)
SortByComposite(places, s) ==
    SortedBy(places, [i \in 1..Len(places) |-> <<0 - Composite(places[i], s), 0>>])

\* scores that cover every place when no array is found
ScoresOfEveryPlace(places, json_match) ==
    IF IsSome(json_match) THEN Val(json_match)
    ELSE [i \in 1..Len(places) |-> RatingScore(places[i])]

\* scores = json.loads(...) or the ratings of places[:30]
ScoresOf(places, json_match) ==
    IF IsSome(json_match) THEN Val(json_match)
    ELSE [i \in 1..Min(Len(places), PromptLimit) |-> RatingScore(places[i])]

\* a loop that keeps only the places it scored
ScoredOnly(places, scores) ==
    [i \in 1..Min(Len(places), Len(scores)) |->
        [places[i] EXCEPT !.relevance_score = scores[i],
                          !.popularity_score = RatingScore(places[i])]]

\* for i, place in enumerate(places[:len(scores)])
Scored(places, scores) ==
    [i \in 1..Len(places) |->
        IF i <= Len(scores)
        THEN [places[i] EXCEPT !.relevance_score = scores[i],
                               !.popularity_score = RatingScore(places[i])]
        ELSE places[i]]

\* the try block after the collaborator answered
ScoreAndSort(places, w, s) ==
    SortByComposite(
        Scored(places, ScoresOf(places, ParsedScores(w, Min(Len(places), PromptLimit)))), s)

\* an except block that scores the places and leaves them where they are
RatingFallbackUnsorted(places, s) ==
    [i \in 1..Len(places) |->
        [places[i] EXCEPT !.popularity_score = RatingScore(places[i]),
                          !.relevance_score = RatingScore(places[i])]]

\* the except block
RatingFallback(places, s) ==
    SortByComposite([i \in 1..Len(places) |->
                        [places[i] EXCEPT !.popularity_score = RatingScore(places[i]),
                                          !.relevance_score = RatingScore(places[i])]], s)

\* the stage once the preferences are parsed
RankParsed(data, p, w, s) ==
    IF p.kind # "return" THEN p
    ELSE IF w.llm = "hang" THEN Hang
    ELSE Return(AgentOutput(
            Put(data, "places",
                IF w.llm \in {"fault", "malformed"}
                THEN RatingFallback(data.places, s)
                ELSE ScoreAndSort(data.places, w, s)),
            [ranked |-> TRUE], TRUE, None))

PlaceRankerAgent(input_data, w, s) ==
    IF "places" \notin DOMAIN input_data.data THEN KeyError("places")
    ELSE RankParsed(input_data.data, ParsePreferences(input_data.data), w, s)

(***************************************************************************)
(* agents.py: ItineraryPlannerAgent.process                                *)
(***************************************************************************)
ActivitiesPerDay == 4
FirstHour == 9
HourStep == 3
OutdoorKeywords == {"park", "trail", "outdoor", "beach", "garden", "mountain"}

\* k in t, for a type t of the Places vocabulary and a keyword k
TypeHas(t, k) ==
    \/ t = k
    \/ (t = "art_gallery" /\ k = "gallery")
    \/ (t = "historic_site" /\ k = "historic")

\* k in category.lower(), category being ", ".join(types[:3])
CategoryHas(category, k) == \E i \in 1..Len(category) : TypeHas(category[i], k)

IsOutdoor(place) == \E k \in OutdoorKeywords : CategoryHas(place.category, k)

\* f"{hour:02d}:00" as its digits, and int(time.split(":")[0])
FormatTime(hour) == <<hour \div 10, hour % 10, 0, 0>>
ParseHour(time) == time[1] * 10 + time[2]

\* current_time of the i-th activity of a day (1-based)
RECURSIVE ActivityTime(_)
ActivityTime(i) ==
    IF i = 1 THEN FormatTime(FirstHour)
    ELSE FormatTime(ParseHour(ActivityTime(i - 1)) + HourStep)

\* range(1, prefs.duration_days)
DayNumbersFromOne(duration_days) == 1..(duration_days - 1)

\* range(prefs.duration_days), 1-based day numbers
DayNumbers(duration_days) == 1..duration_days

\* the first Weather whose date is target_date
FirstIndex(hits) == CHOOSE i \in hits : \A j \in hits : i <= j
WeatherAt(weather_forecast, hits) ==
    IF hits = {} THEN None ELSE Some(weather_forecast[FirstIndex(hits)])
WeatherOn(weather_forecast, target_date) ==
    WeatherAt(weather_forecast,
              {i \in 1..Len(weather_forecast) : weather_forecast[i].date = target_date})

\* the names of the places whose category has an outdoor keyword
OutdoorNames(places) ==
    {places[i].name : i \in {j \in 1..Len(places) : IsOutdoor(places[j])}}

\* top_places.sort(...) when there is a forecast and an outdoor place
WeatherOrdered(selected, outdoor_place_names, weather_forecast) ==
    IF weather_forecast # <<>> /\ outdoor_place_names # {}
    THEN SortedBy(selected,
                  [i \in 1..Len(selected) |->
                      <<IF selected[i].name \in outdoor_place_names THEN 0 ELSE 1,
                        0 - selected[i].relevance_score>>])
    ELSE selected

\* Activity(...).dict() for the i-th place of a day
ActivityOf(i, place, outdoor_place_names) ==
    [time |-> ActivityTime(i),
     place |-> place,
     duration_hours |-> 2,
     activity_type |-> IF place.name \in outdoor_place_names
                       THEN "outdoor" ELSE "sightseeing",
     notes |-> Some(<<"Visit", place.name>>)]

\* DayItinerary(...).dict() for day d (1-based)
DayOf(d, day_places, outdoor_place_names, weather_forecast, current_date) ==
    [day_number |-> d,
     date |-> current_date + (d - 1),
     weather |-> WeatherOn(weather_forecast, current_date + (d - 1)),
     activities |-> [i \in 1..Len(day_places) |->
                        ActivityOf(i, day_places[i], outdoor_place_names)],
     total_distance_km |-> 0,
     estimated_cost |-> None]

\* the loop over the days
DaysOf(top_places, places_per_day, outdoor_place_names, weather_forecast, prefs) ==
    [d \in DayNumbers(prefs.duration_days) |->
        DayOf(d,
              Slice(top_places, (d - 1) * places_per_day,
                    (d - 1) * places_per_day + places_per_day),
              outdoor_place_names, weather_forecast, Val(prefs.start_date))]

\* Itinerary(...).dict()
ItineraryOf(prefs, days, dest_location, origin_loc) ==
    [destination |-> dest_location.name,
     origin |-> IF IsSome(origin_loc) THEN Some(Val(origin_loc).name) ELSE None,
     start_date |-> Val(prefs.start_date),
     end_date |-> Val(prefs.start_date) + (prefs.duration_days - 1),
     days |-> days,
     total_distance_km |-> 0,
     estimated_total_cost |-> None,
     preferences |-> prefs]

\* the days with places_per_day rounded up
PlanSelectedRoundingUp(selected, outdoor_place_names, weather_forecast, prefs) ==
    DaysOf(WeatherOrdered(selected, outdoor_place_names, weather_forecast),
           (Len(selected) + prefs.duration_days - 1) \div prefs.duration_days,
           outdoor_place_names, weather_forecast, prefs)

\* the days for the selected places
PlanSelected(selected, outdoor_place_names, weather_forecast, prefs) ==
    DaysOf(WeatherOrdered(selected, outdoor_place_names, weather_forecast),
           Len(selected) \div prefs.duration_days,
           outdoor_place_names, weather_forecast, prefs)

\* top_places = places[:duration_days * 4] and the days made of them
PlanDays(selected, weather_forecast, prefs) ==
    PlanSelected(selected, OutdoorNames(selected), weather_forecast, prefs)

\* the stage once start_date is set
Planned(data, prefs) ==
    IF DateOverflows(Val(prefs.start_date), prefs.duration_days - 1) THEN OverflowError
    ELSE Return(AgentOutput(
            Put(data, "itinerary",
                Some(ItineraryOf(prefs,
                                 PlanDays(Take(data.places,
                                               prefs.duration_days * ActivitiesPerDay),
                                          Get(data, "weather_forecast", <<>>), prefs),
                                 data.destination_location,
                                 Get(data, "origin_location", None)))),
            [itinerary_generated |-> TRUE], TRUE, None))

\* the stage once the preferences are parsed
PlanParsed(data, p) ==
    IF p.kind # "return" THEN p
    ELSE IF "places" \notin DOMAIN data THEN KeyError("places")
    ELSE IF "destination_location" \notin DOMAIN data
    THEN KeyError("destination_location")
    ELSE Planned(data, IF IsSome(p.output.start_date) THEN p.output
                       ELSE [p.output EXCEPT !.start_date = Some(Today)])

ItineraryPlannerAgent(input_data, w, s) ==
    PlanParsed(input_data.data, ParsePreferences(input_data.data))

(***************************************************************************)
(* agents.py: CostEstimatorAgent.process                                   *)
(***************************************************************************)
\* base_map, in insertion order
CostKeywords == <<"museum", "park", "gallery", "historic", "restaurant", "sightseeing", "outdoor">>
CostBases == <<20, 0, 15, 25, 30, 10, 5>>
DefaultCostBase == 10

\* budget_multiplier, in tenths
BudgetMultiplier(budget) ==
    CASE budget = "low" -> 8
      [] budget = "high" -> 14
      [] OTHER -> 10

\* the last key of base_map found in the category, else the default
CostAtLast(found) ==
    IF found = {} THEN DefaultCostBase
    ELSE CostBases[CHOOSE i \in found : \A j \in found : j <= i]

\* the first key of base_map found in the category, else the default
CostAt(found) == IF found = {} THEN DefaultCostBase ELSE CostBases[FirstIndex(found)]
CostBase(category) ==
    CostAt({i \in 1..Len(CostKeywords) : CategoryHas(category, CostKeywords[i])})

RECURSIVE SumSeq(_)
SumSeq(xs) == IF xs = <<>> THEN 0 ELSE Head(xs) + SumSeq(Tail(xs))

\* activity_cost, in tenths of a unit
ActivityCost(act, m) == CostBase(act.place.category) * m

\* day_dict with the costs of its activities and their sum
DayWithCosts(day, m) ==
    [day EXCEPT
        !.activities = [i \in 1..Len(day.activities) |->
                           Put(day.activities[i], "estimated_cost",
                               ActivityCost(day.activities[i], m))],
        !.estimated_cost =
            Some(SumSeq([i \in 1..Len(day.activities) |->
                            ActivityCost(day.activities[i], m)]))]

\* itinerary_dict with updated_days and their total
WithDays(itinerary, updated_days) ==
    [itinerary EXCEPT
        !.days = updated_days,
        !.estimated_total_cost =
            Some(SumSeq([d \in 1..Len(updated_days) |-> Val(updated_days[d].estimated_cost)]))]

\* the itinerary dict with the costs attached
WithCosts(itinerary) ==
    WithDays(itinerary,
             [d \in 1..Len(itinerary.days) |->
                DayWithCosts(itinerary.days[d],
                             BudgetMultiplier(itinerary.preferences.budget))])

\* the stage carrying the annotation of the stage before it
EstimatedCarrying(data, itinerary_dict) ==
    Return(AgentOutput(Put(data, "itinerary", Some(itinerary_dict)),
                       [itinerary_generated |-> TRUE,
                        cost_estimated |-> TRUE,
                        total_cost |-> Val(itinerary_dict.estimated_total_cost)],
                       TRUE, None))

\* the stage's result for the costed itinerary
Estimated(data, itinerary_dict) ==
    Return(AgentOutput(Put(data, "itinerary", Some(itinerary_dict)),
                       [cost_estimated |-> TRUE,
                        total_cost |-> Val(itinerary_dict.estimated_total_cost)],
                       TRUE, None))

\* a stage that hands the bag on when there is no itinerary to cost
CostEstimatorAgentLenient(input_data, w, s) ==
    IF ~IsSome(Get(input_data.data, "itinerary", None))
    THEN Return(AgentOutput(input_data.data, [cost_estimated |-> FALSE], TRUE, None))
    ELSE Estimated(input_data.data, WithCosts(Val(input_data.data.itinerary)))

CostEstimatorAgent(input_data, w, s) ==
    IF ~IsSome(Get(input_data.data, "itinerary", None))
    THEN Return(AgentOutput(input_data.data, EmptyBag, FALSE,
                            Some(Msg("No itinerary to cost estimate", {}))))
    ELSE Estimated(input_data.data, WithCosts(Val(input_data.data.itinerary)))

(***************************************************************************)
(* base_agent.py: BaseAgent.run                                            *)
(***************************************************************************)
\* await self.process(input_data), by the stage's name
Process(name, input_data, w, s) ==
    CASE name = "InputValidator" -> InputValidatorAgent(input_data, w)
      [] name = "RouteExplorer" -> RouteExplorerAgent(input_data, w, s)
      [] name = "DistanceEvaluator" -> DistanceEvaluatorAgent(input_data, w, s)
      [] name = "WeatherOptimizer" -> WeatherOptimizerAgent(input_data, w, s)
      [] name = "PlaceRanker" -> PlaceRankerAgent(input_data, w, s)
      [] name = "ItineraryPlanner" -> ItineraryPlannerAgent(input_data, w, s)
      [] OTHER -> CostEstimatorAgent(input_data, w, s)

\* except asyncio.TimeoutError
TimeoutOutput ==
    AgentOutput(EmptyBag, [error |-> Msg("timeout", {})], FALSE,
                Some(Msg("Agent timed out", {})))

\* the fault boundary without error=str(e)
FaultOutputNoError(msg) == AgentOutput(EmptyBag, [error |-> msg], FALSE, None)

\* except Exception as e
FaultOutput(msg) == AgentOutput(EmptyBag, [error |-> msg], FALSE, Some(msg))

\* a boundary that reports the fault in the metadata of a successful result
BoundaryToSuccess(o) ==
    CASE o.kind = "return" -> o
      [] o.kind = "raise" -> Return(AgentOutput(EmptyBag, [error |-> o.msg], TRUE, None))
      [] OTHER -> Hang

\* try / except around the awaited process: what it returned, the fault
\* result for what it raised, nothing while it does not come back
Boundary(o) ==
    CASE o.kind = "return" -> o
      [] o.kind = "raise" -> Return(FaultOutput(o.msg))
      [] OTHER -> Hang

\* asyncio.wait_for(self.process(input_data), timeout): with timeout <= 0 the
\* coroutine is cancelled before it starts. Otherwise process runs to its
\* end without a suspension point (every collaborator call in it is a
\* blocking call), so the timer cannot fire while it runs; a call that does
\* not complete leaves the coroutine, and the event loop, stuck in it.
BaseAgentRun(name, input_data, w, s) ==
    IF s.agent_timeout_seconds <= 0 THEN Return(TimeoutOutput)
    ELSE Boundary(Process(name, input_data, w, s))

(***************************************************************************)
(* workflow.py: TripGenieWorkflow                                          *)
(***************************************************************************)
\* the stage instances, in declaration order, with their fields
PipelineAgents ==
    <<[name |-> "InputValidator"],
      [name |-> "RouteExplorer"],
      [name |-> "DistanceEvaluator"],
      [name |-> "WeatherOptimizer"],
      [name |-> "PlaceRanker", model |-> "llama3"],
      [name |-> "ItineraryPlanner", model |-> "llama3"],
      [name |-> "CostEstimator"]>>

\* a facade that words its own error and hands out what the bag holds
FacadeResultRewording(result) ==
    IF ~result.success
    THEN [success |-> FALSE, error |-> Some(Msg("Workflow failed", {})),
          itinerary |-> Get(result.data, "itinerary", None)]
    ELSE [success |-> TRUE,
          itinerary |-> Val(result.data.itinerary),
          metadata |-> result.metadata]

\* what generate_itinerary makes of the result of self.workflow.run
FacadeResult(result) ==
    IF ~result.success THEN [success |-> FALSE, error |-> result.error]
    ELSE IF ~IsSome(Get(result.data, "itinerary", None))
    THEN [success |-> FALSE, error |-> Some(Msg("No itinerary generated", {}))]
    ELSE [success |-> TRUE,
          itinerary |-> Val(result.data.itinerary),
          metadata |-> result.metadata]

(***************************************************************************)
(* base_agent.py: SequentialAgent.run                                      *)
(***************************************************************************)
\* a runner that skips the check and continues
HaltsNever(output) == FALSE

\* if not output.success
Halts(output) == ~output.success

\* current_data = AgentInput(data=output.data)
NextInputDataOnly(output) == AgentInput(output.data, EmptyBag)

\* current_data = AgentInput(data=output.data, metadata=output.metadata)
NextInput(output) == AgentInput(output.data, output.metadata)

\* current_data kept on the shared SequentialAgent instance
CurrentDataOnInstance(r) == cur[CHOOSE q \in Runs : \A q2 \in Runs : q <= q2]

\* current_data, a local of the run's own coroutine
CurrentData(r) == cur[r]

\* the collaborator behaviours a stage can meet
Worlds(name) ==
    CASE name = "InputValidator" -> {[QuietWorld EXCEPT !.geo = g] : g \in world.geo}
      [] name = "RouteExplorer" -> {[QuietWorld EXCEPT !.search = m] : m \in world.search}
      [] name = "WeatherOptimizer" -> {[QuietWorld EXCEPT !.forecast = m] : m \in world.forecast}
      [] name = "PlaceRanker" -> {[QuietWorld EXCEPT !.llm = m] : m \in world.llm}
      [] OTHER -> {QuietWorld}

LogEntry(name, input_data, w, output) ==
    [agent |-> name, input |-> input_data, world |-> w, output |-> output]

\* a blocking call that does not complete holds the only thread of the
\* event loop: nothing else runs
LoopFree == \A q \in Runs : pc[q] # "blocked"

\* generate_itinerary is called and runs up to the first await of
\* SequentialAgent.run
GenerateItinerary(r) ==
    /\ pc[r] = "pending"
    /\ LoopFree
    /\ pc' = [pc EXCEPT ![r] = "running"]
    /\ cur' = [cur EXCEPT ![r] = AgentInput(input[r], EmptyBag)]
    /\ idx' = [idx EXCEPT ![r] = 1]
    /\ UNCHANGED <<settings, agents, input, log, runResult, response, elapsed, probe, world>>

\* the loop body after `output = await agent.run(current_data)` gave o, and,
\* when the loop ends, the rest of generate_itinerary
Settle(r, name, current, w, o) ==
    IF o.kind = "hang"
    THEN /\ pc' = [pc EXCEPT ![r] = "blocked"]
         /\ log' = [log EXCEPT ![r] = Append(@, LogEntry(name, current, w, None))]
         /\ UNCHANGED <<idx, cur, runResult, response>>
    ELSE /\ log' = [log EXCEPT ![r] = Append(@, LogEntry(name, current, w, Some(o.output)))]
         /\ IF Halts(o.output)
            THEN /\ pc' = [pc EXCEPT ![r] = "failed"]
                 /\ runResult' = [runResult EXCEPT ![r] = Some(o.output)]
                 /\ response' = [response EXCEPT ![r] = Some(FacadeResult(o.output))]
                 /\ UNCHANGED <<idx, cur>>
            ELSE /\ cur' = [cur EXCEPT ![r] = NextInput(o.output)]
                 /\ idx' = [idx EXCEPT ![r] = @ + 1]
                 /\ IF idx[r] = Len(agents)
                    THEN /\ pc' = [pc EXCEPT ![r] = "completed"]
                         /\ runResult' = [runResult EXCEPT ![r] = Some(o.output)]
                         /\ response' = [response EXCEPT ![r] = Some(FacadeResult(o.output))]
                    ELSE UNCHANGED <<pc, runResult, response>>

\* one iteration of the loop of SequentialAgent.run
RunStage(r) ==
    /\ pc[r] = "running"
    /\ LoopFree
    /\ \E w \in Worlds(agents[idx[r]].name) :
          Settle(r, agents[idx[r]].name, CurrentData(r), w,
                 BaseAgentRun(agents[idx[r]].name, CurrentData(r), w, settings))
    /\ UNCHANGED <<settings, agents, input, elapsed, probe, world>>

\* a second passes while the stage's blocking call has not completed
Tick(r) ==
    /\ pc[r] = "blocked"
    /\ elapsed[r] <= settings.agent_timeout_seconds
    /\ elapsed' = [elapsed EXCEPT ![r] = @ + 1]
    /\ UNCHANGED <<settings, agents, input, pc, idx, cur, log, runResult, response, probe, world>>

(***************************************************************************)
(* A stage instance used on its own: agent.run(AgentInput(data=bag)) on a  *)
(* bag of the pipeline, and on what it returned.                           *)
(***************************************************************************)
IdleProbe ==
    [phase |-> "idle", agent |-> "", input |-> AgentInput(EmptyBag, EmptyBag),
     world |-> QuietWorld, output |-> None, feedback |-> "", second |-> None]

\* the bag run r carries: its raw input before the run starts, then
\* current_data.data
BagOf(r) == IF pc[r] = "pending" THEN input[r] ELSE cur[r].data

\* the probe after the stage gave o
Probed(name, bag, w, o) ==
    [IdleProbe EXCEPT
        !.phase = "called", !.agent = name,
        !.input = AgentInput(bag, EmptyBag), !.world = w,
        !.output = IF o.kind = "hang" THEN None ELSE Some(o.output)]

InvokeStage(r, name) ==
    /\ probe.phase = "idle"
    /\ pc[r] \in {"pending", "running"}
    /\ \E w \in Worlds(name) :
        probe' = Probed(name, BagOf(r), w,
                        BaseAgentRun(name, AgentInput(BagOf(r), EmptyBag), w, settings))
    /\ UNCHANGED <<settings, agents, input, pc, idx, cur, log, runResult, response, elapsed, world>>

\* the bag fed to the stage the second time
FeedbackBag(how) ==
    CASE how = "preferences" -> Val(probe.output).data.preferences
      [] how = "emptied" -> Put(Val(probe.output).data, "itinerary", None)
      [] OTHER -> Val(probe.output).data

\* the probe after the stage, invoked again, gave o
ProbedAgain(how, o) ==
    [probe EXCEPT !.phase = "again", !.feedback = how,
                  !.second = IF o.kind = "hang" THEN None ELSE Some(o.output)]

\* the same stage again, on the bag it returned, on the preferences record
\* of that bag, or on that bag with an itinerary that is None or {}; the
\* collaborators answer as they did the first time
InvokeAgain(how) ==
    /\ probe.phase = "called"
    /\ IsSome(probe.output) /\ Val(probe.output).success
    /\ how = "preferences" => probe.agent = "InputValidator"
    /\ how = "emptied" => probe.agent = "CostEstimator"
    /\ probe' = ProbedAgain(how, BaseAgentRun(probe.agent,
                                              AgentInput(FeedbackBag(how), EmptyBag),
                                              probe.world, settings))
    /\ UNCHANGED <<settings, agents, input, pc, idx, cur, log, runResult, response, elapsed, world>>

(***************************************************************************)
(* Inputs                                                                  *)
(***************************************************************************)
\* a dict with the key k, or without it
Opt(k, values) == {EmptyBag} \cup {[x \in {k} |-> v] : v \in values}

DurationInputs == (0..MaxDays) \cup {MaxDuration + 1}

RawInputs ==
    {a @@ b @@ c @@ d @@ e @@ f @@ g :
        a \in Opt("destination", {"Paris"}),
        b \in {[duration_days |-> n] : n \in DurationInputs},
        c \in Opt("interests", {<<>>, <<" Art ", "PARK">>}),
        d \in Opt("budget", {"low", "high", "lavish"}),
        e \in Opt("travel_style", {"packed"}),
        f \in Opt("start_date", {Some(DateMax)}),
        g \in Opt("origin", {Some("London")})}

\* the inputs of the runs that share the event loop, and of the stages used
\* on their own
FewInputs ==
    {a @@ b @@ c @@ f @@ g :
        a \in {[destination |-> "Paris"]},
        b \in {[duration_days |-> n] : n \in {0, MaxDays - 1}},
        c \in Opt("interests", {<<>>, <<" Art ", "PARK">>}),
        f \in Opt("start_date", {Some(DateMax)}),
        g \in Opt("origin", {Some("London")})}

AllWorlds == [geo |-> GeoModes, search |-> SearchModes, forecast |-> ForecastModes, llm |-> LlmModes]
FewWorlds == [geo |-> {"all", "none"}, search |-> {"hits", "no_geometry"},
              forecast |-> {"wttr"}, llm |-> {"fault", "prose", "hang"}]
\* the worlds in which the search can also find many places for every query
CrowdedWorlds == [AllWorlds EXCEPT !.search = {"none", "hits", "many"}]

InitCommon ==
    /\ settings \in SettingsChoices
    /\ agents = PipelineAgents
    /\ idx = [r \in Runs |-> 1]
    /\ cur = [r \in Runs |-> AgentInput(EmptyBag, EmptyBag)]
    /\ log = [r \in Runs |-> <<>>]
    /\ runResult = [r \in Runs |-> None]
    /\ response = [r \in Runs |-> None]
    /\ elapsed = [r \in Runs |-> 0]
    /\ probe = IdleProbe

\* one request
Init ==
    /\ InitCommon
    /\ world = AllWorlds
    /\ \E i \in RawInputs : input = [r \in Runs |-> IF r = 1 THEN i ELSE EmptyBag]
    /\ pc = [r \in Runs |-> IF r = 1 THEN "pending" ELSE "idle"]

Next == \E r \in Runs : GenerateItinerary(r) \/ RunStage(r) \/ Tick(r)

Spec == Init /\ [][Next]_vars

\* two requests served by the same event loop
InitConc ==
    /\ InitCommon
    /\ world = FewWorlds
    /\ input \in [Runs -> FewInputs]
    /\ pc = [r \in Runs |-> "pending"]

SpecConc == InitConc /\ [][Next]_vars

\* one request, and the stages invoked on their own on its bags
InitStage ==
    /\ InitCommon
    /\ world = AllWorlds
    /\ \E i \in FewInputs : input = [r \in Runs |-> IF r = 1 THEN i ELSE EmptyBag]
    /\ pc = [r \in Runs |-> IF r = 1 THEN "pending" ELSE "idle"]

NextStage ==
    \/ probe.phase = "idle" /\ Next
    \/ \E r \in Runs, i \in 1..Len(PipelineAgents) : InvokeStage(r, PipelineAgents[i].name)
    \/ \E how \in {"output", "preferences", "emptied"} : InvokeAgain(how)

SpecStage == InitStage /\ [][NextStage]_vars

\* the inputs of the requests to destinations with many places
CrowdInputs ==
    {a @@ b @@ c @@ d :
        a \in {[destination |-> "Paris"]},
        b \in {[duration_days |-> n] : n \in {1, MaxDays, MaxDuration}},
        c \in Opt("interests", {<<" Art ", "PARK">>}),
        d \in Opt("travel_style", {"relaxed", "packed"})}

\* one request to a destination with many places
InitCrowd ==
    /\ InitCommon
    /\ world = CrowdedWorlds
    /\ \E i \in CrowdInputs : input = [r \in Runs |-> IF r = 1 THEN i ELSE EmptyBag]
    /\ pc = [r \in Runs |-> IF r = 1 THEN "pending" ELSE "idle"]

SpecCrowd == InitCrowd /\ [][Next]_vars

(***************************************************************************)
(* Properties                                                              *)
(***************************************************************************)
Last(s) == s[Len(s)]

\* the stage results the pipeline runs have produced
LoggedOutputs ==
    UNION {{Val(log[r][i].output) : i \in {j \in 1..Len(log[r]) : IsSome(log[r][j].output)}} :
            r \in Runs}

\* the results of the stages invoked on their own
ProbedOutputs ==
    (IF IsSome(probe.output) THEN {Val(probe.output)} ELSE {})
    \cup (IF IsSome(probe.second) THEN {Val(probe.second)} ELSE {})

\* every Stage Result there is: of a stage, or of the Runner
StageResults ==
    LoggedOutputs \cup ProbedOutputs
    \cup {Val(runResult[r]) : r \in {q \in Runs : IsSome(runResult[q])}}

\* C1: first failure wins. No stage is invoked after a stage that returned
\* success=false, and the run's result is that stage's result, unmodified.
FirstFailureWins ==
    \A r \in Runs :
        /\ \A i \in 1..(Len(log[r]) - 1) :
              IsSome(log[r][i].output) /\ Val(log[r][i].output).success
        /\ (Len(log[r]) > 0 /\ IsSome(Last(log[r]).output)
                /\ ~Val(Last(log[r]).output).success)
              => /\ pc[r] = "failed"
                 /\ runResult[r] = Last(log[r]).output
        /\ pc[r] = "failed"
              => /\ Len(log[r]) > 0
                 /\ runResult[r] = Last(log[r]).output
                 /\ ~Val(runResult[r]).success

\* a run that failed at a stage after the first, holding a bag from the
\* stages before it
FirstFailureWitness ==
    \E r \in Runs :
        /\ pc[r] = "failed"
        /\ Len(log[r]) >= 2
        /\ cur[r].data # EmptyBag
        /\ Val(runResult[r]).data = EmptyBag

DeclaredOrder ==
    <<"InputValidator", "RouteExplorer", "DistanceEvaluator", "WeatherOptimizer",
      "PlaceRanker", "ItineraryPlanner", "CostEstimator">>

\* C2: the stages are invoked in declaration order, each at most once and
\* one at a time; the first on the caller's preferences, each later one on
\* exactly the data and metadata the stage before it returned with success.
StagesInOrder ==
    \A r \in Runs :
        /\ Len(log[r]) <= Len(DeclaredOrder)
        /\ \A i \in 1..Len(log[r]) :
              /\ log[r][i].agent = DeclaredOrder[i]
              /\ i = 1 => log[r][i].input = [data |-> input[r], metadata |-> EmptyBag]
              /\ i > 1 => /\ IsSome(log[r][i - 1].output)
                          /\ Val(log[r][i - 1].output).success
                          /\ log[r][i].input.data = Val(log[r][i - 1].output).data
                          /\ log[r][i].input.metadata = Val(log[r][i - 1].output).metadata
              /\ ~IsSome(log[r][i].output) => (i = Len(log[r]) /\ pc[r] = "blocked")

\* a run that went through all seven stages
StagesInOrderWitness ==
    \E r \in Runs :
        /\ pc[r] = "completed"
        /\ Len(log[r]) = 7
        /\ log[r][7].input.metadata # EmptyBag

\* C3: a run whose stage has been executing for longer than
\* agent_timeout_seconds has failed with the timeout result.
TimeoutWithinBound ==
    \A r \in Runs :
        elapsed[r] > settings.agent_timeout_seconds
            => /\ pc[r] = "failed"
               /\ IsSome(runResult[r])
               /\ ~Val(runResult[r]).success
               /\ Val(runResult[r]).data = EmptyBag
               /\ Val(runResult[r]).metadata = [error |-> Msg("timeout", {})]

\* C4: a successful run's itinerary has duration_days days, numbered
\* 1..duration_days in order, duration_days being the caller's, within 1..30.
DayCountMatches ==
    \A r \in Runs :
        (IsSome(response[r]) /\ Val(response[r]).success)
            => LET days == Val(response[r]).itinerary.days IN
               /\ input[r].duration_days \in 1..30
               /\ Len(days) = input[r].duration_days
               /\ \A i \in 1..Len(days) : days[i].day_number = i

\* a successful run of the longest duration, with activities on its days
DayCountWitness ==
    \E r \in Runs :
        /\ IsSome(response[r]) /\ Val(response[r]).success
        /\ input[r].duration_days = MaxDays
        /\ Len(Val(response[r]).itinerary.days[1].activities) > 0

\* C5: the facade's record has an itinerary only with success=true and then
\* no error; for a failed run it is success=false with the failing stage's
\* error and nothing else.
NoItineraryWithError ==
    \A r \in Runs :
        IsSome(response[r]) =>
            LET res == Val(response[r]) IN
            /\ "itinerary" \in DOMAIN res => (res.success /\ "error" \notin DOMAIN res)
            /\ res.success => pc[r] = "completed"
            /\ pc[r] = "failed"
                  => /\ DOMAIN res = {"success", "error"}
                     /\ ~res.success
                     /\ res.error = Val(Last(log[r]).output).error

\* a run that failed after places had been found, and its error record
NoItineraryWithErrorWitness ==
    \E r \in Runs :
        /\ pc[r] = "failed"
        /\ IsSome(response[r])
        /\ "places" \in DOMAIN cur[r].data
        /\ Val(response[r]).error = Some(Msg("date value out of range", {}))

\* C6: in every Stage Result the error is present iff success is false.
ErrorIffFailure ==
    \A out \in StageResults : IsSome(out.error) <=> ~out.success

\* a result made by the fault boundary of BaseAgent.run is among them
ErrorIffFailureWitness ==
    \E out \in StageResults :
        /\ ~out.success
        /\ "error" \in DOMAIN out.metadata
        /\ out.metadata.error # Msg("timeout", {})

\* C7: every Stage Result with success=false carries an empty data bag.
FailureDataEmpty ==
    \A out \in StageResults : ~out.success => out.data = EmptyBag

\* the keys the stages are documented to replace in place
ReplacedInPlace(name) ==
    CASE name = "InputValidator" -> {"preferences"}
      [] name \in {"DistanceEvaluator", "PlaceRanker"} -> {"places"}
      [] name = "CostEstimator" -> {"itinerary"}
      [] OTHER -> {}

\* the stage invocations that returned success, as <<stage, bag in, bag out>>
Successes ==
    UNION {{<<log[r][i].agent, log[r][i].input.data, Val(log[r][i].output).data>> :
                i \in {j \in 1..Len(log[r]) :
                          IsSome(log[r][j].output) /\ Val(log[r][j].output).success}} :
            r \in Runs}
    \cup (IF IsSome(probe.output) /\ Val(probe.output).success
          THEN {<<probe.agent, probe.input.data, Val(probe.output).data>>} ELSE {})

RECURSIVE RunAlone(_, _, _, _)
AloneFrom(i, out, ws, s) ==
    IF ~out.success \/ i = Len(DeclaredOrder) \/ i >= Len(ws) THEN <<out>>
    ELSE <<out>> \o RunAlone(i + 1, [data |-> out.data, metadata |-> out.metadata], ws, s)
RunAlone(i, current, ws, s) ==
    AloneFrom(i, BaseAgentRun(DeclaredOrder[i], current, ws[i], s).output, ws, s)

\* run r went through the stage results alone, and returned their record
SameAsAlone(r, alone) ==
    /\ [i \in 1..Len(log[r]) |-> Val(log[r][i].output)] = alone
    /\ Last(alone).success => Len(alone) = Len(DeclaredOrder)
    /\ response[r] = Some(FacadeResult(Last(alone)))

\* C10: runs sharing the workflow instance are independent. The stage
\* instances' fields never change, and a run that has returned went through
\* the stage results, and returned the record, it produces alone.
RunsIndependent ==
    /\ agents = PipelineAgents
    /\ \A r \in Runs :
        IsSome(response[r]) =>
            SameAsAlone(r, RunAlone(1, [data |-> input[r], metadata |-> EmptyBag],
                                    [i \in 1..Len(log[r]) |-> log[r][i].world], settings))

\* two runs with different inputs have both returned, one with an itinerary
RunsIndependentWitness ==
    /\ \A r \in Runs : IsSome(response[r])
    /\ \E r, q \in Runs :
        /\ input[r] # input[q]
        /\ Val(response[r]).success
        /\ ~Val(response[q]).success
        /\ Len(log[q]) >= 2

\* the first stage invocation of run r returned, on schema-valid preferences
ValidateReturned(r) ==
    /\ Len(log[r]) >= 1
    /\ IsSome(log[r][1].output)
    /\ PreferenceErrors(input[r]) = {}
    /\ settings.agent_timeout_seconds > 0

\* C11: on schema-valid preferences Validate fails iff the geocoder returns
\* none for the destination; then the error is the geocoding one, no later
\* stage runs and the facade's record has no itinerary. An origin the
\* geocoder does not resolve leaves origin_location None and nothing else.
ValidateFailsIffNoGeocode ==
    \A r \in Runs :
        ValidateReturned(r) =>
            LET out == Val(log[r][1].output)
                w == log[r][1].world
            IN
            /\ out.success <=> IsSome(geocode_location(w, input[r].destination))
            /\ ~out.success
                  => /\ Val(out.error).text = "Could not geocode destination"
                     /\ Len(log[r]) = 1
                     /\ pc[r] = "failed"
                     /\ "itinerary" \notin DOMAIN Val(response[r])
                     /\ ~Val(response[r]).success
            /\ (out.success /\ "origin" \in DOMAIN input[r]
                    /\ ~IsSome(geocode_location(w, Val(input[r].origin))))
                  => out.data.origin_location = None

\* Validate succeeded although the origin given was not resolved
ValidateFailsIffNoGeocodeWitness ==
    \E r \in Runs :
        /\ ValidateReturned(r)
        /\ log[r][1].world.geo = "destination_only"
        /\ "origin" \in DOMAIN input[r]
        /\ Val(log[r][1].output).success
        /\ Val(log[r][1].output).data.origin_location = None

\* the search returned nothing for every query of run r, and the run ended
EndedWithoutHits(r) ==
    /\ Len(log[r]) >= 2
    /\ log[r][2].world.search = "none"
    /\ IsSome(log[r][2].output)
    /\ IsSome(response[r])

\* success=true, duration_days days, no activity, every cost zero
EmptyItinerary(res, duration_days) ==
    /\ res.success
    /\ Len(res.itinerary.days) = duration_days
    /\ \A d \in 1..Len(res.itinerary.days) :
          /\ res.itinerary.days[d].activities = <<>>
          /\ res.itinerary.days[d].estimated_cost = Some(0)
    /\ res.itinerary.estimated_total_cost = Some(0)

\* C12 as stated: when the search returns no result for any query, the run
\* ends with success=true, duration_days days without activities, and zero
\* costs.
ZeroResultsSucceeds ==
    \A r \in Runs :
        EndedWithoutHits(r) => EmptyItinerary(Val(response[r]), input[r].duration_days)

\* the last day of the trip of run r is after date.max
TripOverflows(r) ==
    DateOverflows(Val(log[r][2].input.data.preferences.start_date),
                  input[r].duration_days - 1)

\* C12 amended: so it is when the last day of the trip is a date; when it is
\* after date.max the run fails with the date error.
ZeroResultsSucceedsWithinCalendar ==
    \A r \in Runs :
        EndedWithoutHits(r) =>
            IF TripOverflows(r)
            THEN /\ ~Val(response[r]).success
                 /\ Val(response[r]).error = Some(Msg("date value out of range", {}))
            ELSE EmptyItinerary(Val(response[r]), input[r].duration_days)

\* a run of the longest duration that completed without any place
ZeroResultsWitness ==
    \E r \in Runs :
        /\ EndedWithoutHits(r)
        /\ pc[r] = "completed"
        /\ input[r].duration_days = MaxDays
        /\ Val(response[r]).itinerary.estimated_total_cost = Some(0)

\* the invocations of a stage, made by the runs, that returned
StageCalls(name) ==
    UNION {{log[r][i] : i \in {j \in 1..Len(log[r]) :
                                  log[r][j].agent = name /\ IsSome(log[r][j].output)}} :
            r \in Runs}

\* out is expected reordered: descending by keys, equal keys in the order
\* of expected
IsPermutationOf(out, expected) ==
    /\ Len(out) = Len(expected)
    /\ \A i \in 1..Len(expected) : \E k \in 1..Len(out) : out[k] = expected[i]
PositionsIn(out, expected) ==
    [i \in 1..Len(expected) |-> CHOOSE k \in 1..Len(out) : out[k] = expected[i]]
OrderedAs(pos, keys) ==
    \A i, j \in DOMAIN pos :
        i < j => IF keys[i] >= keys[j] THEN pos[i] < pos[j] ELSE pos[j] < pos[i]
IsSortedDescending(out, expected, keys) ==
    /\ IsPermutationOf(out, expected)
    /\ OrderedAs(PositionsIn(out, expected), keys)

\* a place scored by its rating
RatedPlace(place) ==
    [place EXCEPT !.popularity_score = RatingScore(place),
                  !.relevance_score = RatingScore(place)]

\* the places, every one scored by its rating and ordered by it
RankedByRating(out_places, places) ==
    IsSortedDescending(out_places,
                       [i \in 1..Len(places) |-> RatedPlace(places[i])],
                       [i \in 1..Len(places) |-> RatingScore(places[i])])

\* the places, the first 30 scored by their rating and the others as they
\* came, ordered by that score
RankedByRatingOfPrompted(out_places, places) ==
    IsSortedDescending(out_places,
                       [i \in 1..Len(places) |->
                           IF i <= PromptLimit THEN RatedPlace(places[i]) ELSE places[i]],
                       [i \in 1..Len(places) |->
                           IF i <= PromptLimit THEN RatingScore(places[i]) ELSE 0])

\* C13 as stated: Rank returns success whatever the reasoning collaborator
\* does, and when its answer is missing or unparseable every place is
\* scored by rating x 20 and the places are ordered by that score.
RankNeverFails ==
    \A e \in StageCalls("PlaceRanker") :
        /\ Val(e.output).success
        /\ e.world.llm \in {"fault", "prose", "malformed"}
              => RankedByRating(Val(e.output).data.places, e.input.data.places)

\* C13 amended: Rank returns success whatever the reasoning collaborator
\* does. When the call faults or the array found is rejected by the parser,
\* every place is scored by rating x 20 and ordered by it; when no array is
\* found in the answer, only the first 30 places are, and the others keep
\* their scores of zero and follow.
RankNeverFailsPrompted ==
    \A e \in StageCalls("PlaceRanker") :
        /\ Val(e.output).success
        /\ e.world.llm \in {"fault", "malformed"}
              => RankedByRating(Val(e.output).data.places, e.input.data.places)
        /\ e.world.llm = "prose"
              => RankedByRatingOfPrompted(Val(e.output).data.places, e.input.data.places)

\* Rank fell back on an answer without an array, for more than 30 places
RankNeverFailsWitness ==
    \E e \in StageCalls("PlaceRanker") :
        /\ e.world.llm = "prose"
        /\ Len(e.input.data.places) > PromptLimit
        /\ Val(e.output).success

\* the Rank stage of run r returned after the reasoning collaborator faulted
RankFaulted(r) ==
    /\ Len(log[r]) >= 5
    /\ IsSome(log[r][5].output)
    /\ log[r][5].world.llm = "fault"

RankInput(r) == log[r][5].input.data.places
RankOutput(r) == Val(log[r][5].output).data.places
Ratings(places) == [i \in 1..Len(places) |-> places[i].rating]

\* where each place given to the Rank stage of run r is in what it returned
RankPermutation(r) ==
    PositionsIn(RankOutput(r), [i \in 1..Len(RankInput(r)) |-> RatedPlace(RankInput(r)[i])])

\* C14: with a reasoning collaborator that faults, the ordering Rank returns
\* is the descending order of the ratings, ties in input order; two runs
\* given places with the same ratings reorder them alike, and two runs
\* given the same bag return the same bag.
FallbackDeterministic ==
    /\ \A r \in Runs :
          RankFaulted(r) => RankedByRating(RankOutput(r), RankInput(r))
    /\ \A r, q \in Runs :
          (RankFaulted(r) /\ RankFaulted(q))
            => /\ Ratings(RankInput(r)) = Ratings(RankInput(q))
                    => RankPermutation(r) = RankPermutation(q)
               /\ log[r][5].input = log[q][5].input
                    => log[r][5].output = log[q][5].output

\* two runs whose Rank stages fell back, on the same bag or on bags that
\* differ, for places among which two have the same rating
FallbackDeterministicWitness ==
    \E r, q \in Runs :
        /\ r # q
        /\ RankFaulted(r) /\ RankFaulted(q)
        /\ \E i, j \in 1..Len(RankInput(r)) :
              i # j /\ RankInput(r)[i].rating = RankInput(r)[j].rating
        /\ RankOutput(r) # RankInput(r)

\* C15: the places Discover returns have pairwise different external
\* identifiers, whatever the search returned: hits repeated within a
\* response or across responses, and hits without an identifier.
NoDuplicatePlaceIds ==
    \A e \in StageCalls("RouteExplorer") :
        Val(e.output).success =>
            \A i, j \in 1..Len(Val(e.output).data.places) :
                i # j => Val(e.output).data.places[i].location.place_id
                            # Val(e.output).data.places[j].location.place_id

\* Discover kept five places of responses that repeat hits and hold hits
\* without an identifier
NoDuplicatePlaceIdsWitness ==
    \E e \in StageCalls("RouteExplorer") :
        /\ e.world.search = "hits"
        /\ Val(e.output).success
        /\ Len(Val(e.output).data.places) = 5
        /\ \E i \in 1..5 : Val(e.output).data.places[i].location.place_id = None

\* the queries Discover may issue, in order
AllowedQueries(e, s) ==
    Take(SearchQueries(UserPreferences(e.input.data.preferences),
                       e.input.data.destination_location),
         s.max_search_queries)

\* what Discover has collected after the first n queries it may issue
DiscoveredAfter(n, e, s) ==
    CollectQueries(Take(AllowedQueries(e, s), n),
                   [places |-> <<>>, seen |-> {}, broken |-> FALSE, queries |-> 0],
                   e.world, s)

\* what the loops of the invocation e collected
Discovered(e, s) ==
    Discover(UserPreferences(e.input.data.preferences),
             e.input.data.destination_location, e.world, s)

\* place is one of the first max_results_per_query hits of an allowed query
FromAllowedHit(place, queries, w, s) ==
    \E n \in 1..Len(queries) :
        \E h \in 1..Min(Len(fetch_google_places(w, queries[n])), s.max_results_per_query) :
            /\ IsSome(fetch_google_places(w, queries[n])[h].geometry)
            /\ PlaceOf(fetch_google_places(w, queries[n])[h]) = place

\* the caps hold for what was collected and returned
WithinCaps(found, places, e, s) ==
    /\ places = found.places
    /\ found.queries <= s.max_search_queries
    /\ Len(places) <= s.max_total_places
    /\ \A k \in 1..Len(places) : FromAllowedHit(places[k], AllowedQueries(e, s), e.world, s)
    /\ \A n \in 1..found.queries :
          /\ Len(DiscoveredAfter(n - 1, e, s).places) < s.max_total_places
          /\ AllowedQueries(e, s)[n]
                = SearchQueries(UserPreferences(e.input.data.preferences),
                                e.input.data.destination_location)[n]

\* C17: Discover issues at most max_search_queries queries, the interest
\* queries first and the two generic ones after them, none once
\* max_total_places places are collected; it takes places only from the
\* first max_results_per_query hits of a response, and returns at most
\* max_total_places of them.
DiscoverWithinCaps ==
    \A e \in StageCalls("RouteExplorer") :
        Val(e.output).success
            => WithinCaps(Discovered(e, settings), Val(e.output).data.places, e, settings)

\* Discover stopped at max_total_places with a query left to issue, having
\* built more queries than it may issue
DiscoverWithinCapsWitness ==
    \E e \in StageCalls("RouteExplorer") :
        /\ Val(e.output).success
        /\ Len(Val(e.output).data.places) = settings.max_total_places
        /\ Discovered(e, settings).queries < settings.max_search_queries
        /\ \E q \in StageCalls("RouteExplorer") :
              Len(SearchQueries(UserPreferences(q.input.data.preferences),
                                q.input.data.destination_location))
                > settings.max_search_queries

\* min(duration_days x 40 x style_multiplier, 200) km, in metres
ClaimedCap(prefs) ==
    Min(prefs.duration_days * 40 * 100
            * (CASE prefs.travel_style = "relaxed" -> 8
                 [] prefs.travel_style = "moderate" -> 10
                 [] prefs.travel_style = "packed" -> 13),
        200 * 1000)

\* the distance of a place from the destination, in metres
DistanceFrom(dest, place) ==
    haversine_distance(dest.latitude, dest.longitude,
                       place.location.latitude, place.location.longitude)

\* out holds the places of the bag within cap, each with its distance
FilteredTo(out, places, dest, cap) ==
    /\ \A k \in 1..Len(out) :
          /\ IsSome(out[k].distance_from_route)
          /\ Val(out[k].distance_from_route) <= cap
          /\ Val(out[k].distance_from_route) = DistanceFrom(dest, out[k])
    /\ {out[k].name : k \in 1..Len(out)}
          = {places[i].name : i \in {j \in 1..Len(places) :
                                         DistanceFrom(dest, places[j]) <= cap}}
    /\ Len(out) <= Len(places)

\* C16: every place Filter-by-Distance returns is within
\* min(duration_days x 40 x style_multiplier, 200) km of the destination,
\* the multiplier being 0.8, 1.0 or 1.3, and every place it received within
\* that distance is returned.
DistanceCapRespected ==
    \A e \in StageCalls("DistanceEvaluator") :
        Val(e.output).success
            => FilteredTo(Val(e.output).data.places, e.input.data.places,
                          e.input.data.destination_location,
                          ClaimedCap(e.input.data.preferences))

\* a stay long enough for the ceiling to be the cap: a place further than
\* 200 km was dropped and the others were kept
DistanceCapWitness ==
    \E e \in StageCalls("DistanceEvaluator") :
        /\ Val(e.output).success
        /\ e.input.data.preferences.duration_days = MaxDuration
        /\ Len(Val(e.output).data.places) > 0
        /\ \E i \in 1..Len(e.input.data.places) :
              DistanceFrom(e.input.data.destination_location, e.input.data.places[i])
                > 200 * 1000

\* the forecast the collaborator gave to the Weather invocation e
ForecastGiven(e) ==
    fetch_google_weather_forecast(e.world,
                                  e.input.data.destination_location.latitude,
                                  e.input.data.destination_location.longitude,
                                  e.input.data.preferences.duration_days)

\* one Weather record per record of the forecast, the i-th dated start + i
OnePerForecastDay(weather_forecast, weather_data, start) ==
    /\ Len(weather_forecast) = Len(weather_data)
    /\ \A k \in 1..Len(weather_forecast) : weather_forecast[k].date = start + (k - 1)

\* C18: for a forecast of n <= duration_days per-day records the Weather
\* stage succeeds with n Weather records, the i-th dated start_date + i, and
\* with none for an empty forecast. (Trips whose last day is a date.)
WeatherPerForecastDay ==
    \A e \in StageCalls("WeatherOptimizer") :
        ~DateOverflows(Val(e.input.data.preferences.start_date),
                       e.input.data.preferences.duration_days - 1)
            => /\ Val(e.output).success
               /\ OnePerForecastDay(Val(e.output).data.weather_forecast, ForecastGiven(e),
                                     Val(e.input.data.preferences.start_date))

\* the places Schedule selects: places[:duration_days * 4]
Selected(e) ==
    Take(e.input.data.places, e.input.data.preferences.duration_days * ActivitiesPerDay)

\* the activities of all the days, counted, and the places they visit
ScheduledCount(days) == SumSeq([d \in 1..Len(days) |-> Len(days[d].activities)])
ScheduledNames(days) ==
    UNION {{days[d].activities[i].place.name : i \in 1..Len(days[d].activities)} :
            d \in 1..Len(days)}

\* C19: the days of the itinerary partition the selected candidates: every
\* one of them is in exactly one day's activities.
SchedulePartitions ==
    \A e \in StageCalls("ItineraryPlanner") :
        Val(e.output).success
            => /\ ScheduledNames(Val(Val(e.output).data.itinerary).days)
                    = {Selected(e)[i].name : i \in 1..Len(Selected(e))}
               /\ ScheduledCount(Val(Val(e.output).data.itinerary).days) = Len(Selected(e))

\* the Estimate Costs invocations that returned: of the runs, and on its own
CostCalls ==
    StageCalls("CostEstimator")
    \cup (IF probe.agent = "CostEstimator" /\ IsSome(probe.output)
          THEN {[input |-> probe.input, output |-> probe.output]} ELSE {})
    \cup (IF probe.agent = "CostEstimator" /\ IsSome(probe.second)
          THEN {[input |-> AgentInput(FeedbackBag(probe.feedback), EmptyBag),
                 output |-> probe.second]}
          ELSE {})

\* the itinerary has a cost on every activity, on every day and in total
CostsAttached(itinerary) ==
    /\ IsSome(itinerary.estimated_total_cost)
    /\ \A d \in 1..Len(itinerary.days) :
          /\ IsSome(itinerary.days[d].estimated_cost)
          /\ \A i \in 1..Len(itinerary.days[d].activities) :
                "estimated_cost" \in DOMAIN itinerary.days[d].activities[i]

\* C20: Estimate Costs returns success=false when the bag has no itinerary
\* (no key, or an empty value), success=true with the costs attached when it
\* has one; a run that reaches it after Schedule succeeded gets success.
CostFailsIffNoItinerary ==
    /\ \A c \in CostCalls :
          settings.agent_timeout_seconds > 0
            => IF IsSome(Get(c.input.data, "itinerary", None))
               THEN /\ Val(c.output).success
                    /\ CostsAttached(Val(Val(c.output).data.itinerary))
               ELSE ~Val(c.output).success
    /\ \A r \in Runs :
          (Len(log[r]) = 7 /\ IsSome(log[r][7].output)) => Val(log[r][7].output).success

\* the stage costed an itinerary with activities, and failed on the same bag
\* with the itinerary emptied
CostFailsIffNoItineraryWitness ==
    /\ probe.phase = "again" /\ probe.agent = "CostEstimator"
    /\ probe.feedback = "emptied"
    /\ Val(Val(probe.output).data.itinerary).estimated_total_cost # Some(0)
    /\ IsSome(probe.second) /\ ~Val(probe.second).success

\* the keywords in their fixed order, and the multipliers in tenths
ClaimedKeywords ==
    <<"museum", "park", "gallery", "historic", "restaurant", "sightseeing", "outdoor">>
ClaimedMultiplier(budget) ==
    CASE budget = "low" -> 8
      [] budget = "medium" -> 10
      [] budget = "high" -> 14

\* the keywords found in the category text
KeywordsFound(category) ==
    {n \in 1..Len(ClaimedKeywords) : CategoryHas(category, ClaimedKeywords[n])}

\* the base cost of the first keyword found, 10 if there is none
ClaimedBase(category) ==
    IF KeywordsFound(category) = {} THEN 10
    ELSE CostBases[CHOOSE n \in KeywordsFound(category) :
                      \A k \in KeywordsFound(category) : n <= k]

\* the costs of a day: of each activity, and their sum
DayCostsAdd(day, m) ==
    /\ \A i \in 1..Len(day.activities) :
          day.activities[i].estimated_cost
            = ClaimedBase(day.activities[i].place.category) * m
    /\ day.estimated_cost
          = Some(SumSeq([i \in 1..Len(day.activities) |-> day.activities[i].estimated_cost]))

\* the costs of the itinerary: of each day, and their sum
CostsAdd(itinerary) ==
    /\ \A d \in 1..Len(itinerary.days) :
          DayCostsAdd(itinerary.days[d], ClaimedMultiplier(itinerary.preferences.budget))
    /\ itinerary.estimated_total_cost
          = Some(SumSeq([d \in 1..Len(itinerary.days) |->
                            Val(itinerary.days[d].estimated_cost)]))

\* C21: after Estimate Costs every activity's estimated_cost is the base
\* cost of the first keyword, in the fixed order, found in its category
\* (10 if none is) times the budget multiplier 0.8, 1.0 or 1.4; each day's
\* estimated_cost is the sum of its activities' costs and
\* estimated_total_cost the sum of the days' costs.
CostsFollowKeywords ==
    \A e \in StageCalls("CostEstimator") :
        Val(e.output).success => CostsAdd(Val(Val(e.output).data.itinerary))

\* a costed itinerary, not on the medium budget, with an activity whose
\* category has two keywords and one whose category has none
CostsFollowKeywordsWitness ==
    \E e \in StageCalls("CostEstimator") :
        /\ Val(e.output).success
        /\ Val(Val(e.output).data.itinerary).preferences.budget # "medium"
        /\ \E d \in 1..Len(Val(Val(e.output).data.itinerary).days) :
              \E i, j \in 1..Len(Val(Val(e.output).data.itinerary).days[d].activities) :
                /\ Cardinality(KeywordsFound(
                        Val(Val(e.output).data.itinerary).days[d].activities[i].place.category)) = 2
                /\ KeywordsFound(
                        Val(Val(e.output).data.itinerary).days[d].activities[j].place.category) = {}

\* the keys a stage reads from the bag without a default
ReadsWithoutDefault(name) ==
    CASE name \in {"RouteExplorer", "WeatherOptimizer"} ->
            {"preferences", "destination_location"}
      [] name \in {"DistanceEvaluator", "PlaceRanker", "ItineraryPlanner"} ->
            {"preferences", "destination_location", "places"}
      [] OTHER -> {}

\* an earlier stage of the run returned success and added key k to the bag
SetByEarlierSuccess(r, i, k) ==
    \E j \in 1..(i - 1) :
        /\ IsSome(log[r][j].output)
        /\ Val(log[r][j].output).success
        /\ k \in DOMAIN Val(log[r][j].output).data
        /\ k \notin DOMAIN log[r][j].input.data

\* the stage did not end in the fault of a missing key of the bag
NoMissingKeyFault(e) ==
    IsSome(e.output) =>
        \A k \in {"preferences", "destination_location", "places"} :
            Val(e.output).error # Some(Msg("KeyError", {k}))

\* C22: in every run of the fixed pipeline, when a stage is invoked the bag
\* already holds every key the stage reads without a default (preferences
\* and destination_location for stages 2-6, places for stages 3, 5 and 6),
\* each set by an earlier stage that returned success.
ReadKeysPresent ==
    \A r \in Runs : \A i \in 1..Len(log[r]) :
        /\ log[r][i].agent = PipelineAgents[i].name
        /\ NoMissingKeyFault(log[r][i])
        /\ \A k \in ReadsWithoutDefault(log[r][i].agent) :
              /\ k \in DOMAIN log[r][i].input.data
              /\ SetByEarlierSuccess(r, i, k)

\* a run that invoked all seven stages, the sixth with the three keys
ReadKeysPresentWitness ==
    \E r \in Runs :
        /\ Len(log[r]) = Len(PipelineAgents)
        /\ log[r][6].agent = "ItineraryPlanner"
        /\ ReadsWithoutDefault(log[r][6].agent) \subseteq DOMAIN log[r][6].input.data
        /\ IsSome(log[r][6].output)
        /\ Val(log[r][6].output).success

\* what the stage's process did in the logged invocation, where it ran
ProcessOutcome(e) ==
    IF settings.agent_timeout_seconds <= 0 THEN Hang
    ELSE Process(e.agent, e.input, e.world, settings)

\* the logged invocation ended as the failure of fault msg
ConvertedFault(e, msg) ==
    /\ IsSome(e.output)
    /\ ~Val(e.output).success
    /\ Val(e.output).data = EmptyBag
    /\ Val(e.output).error = Some(msg)

\* the run stopped at its i-th invocation and the facade returned a failure
HaltedAt(r, i, msg) ==
    /\ Len(log[r]) = i
    /\ pc[r] = "failed"
    /\ runResult[r] = log[r][i].output
    /\ response[r] = Some([success |-> FALSE, error |-> Some(msg)])

\* the i-th invocation of run r, whatever its process did
FaultContained(r, i, outcome) ==
    outcome.kind = "raise" =>
        ConvertedFault(log[r][i], outcome.msg) /\ HaltedAt(r, i, outcome.msg)

\* C23: a fault raised inside a stage's process does not escape the Runner:
\* it becomes a result with success=false, empty data and the fault's
\* message as error, the run halts at that stage, and generate_itinerary
\* returns a success=false record.
FaultsContained ==
    \A r \in Runs : \A i \in 1..Len(log[r]) :
        FaultContained(r, i, ProcessOutcome(log[r][i]))

\* a run whose process raised in a stage after the first
FaultsContainedWitness ==
    \E r \in Runs : \E i \in 2..Len(log[r]) :
        /\ ProcessOutcome(log[r][i]).kind = "raise"
        /\ IsSome(response[r])
        /\ ~Val(response[r]).success

\* the annotations of the stages before Estimate Costs
EarlierAnnotations ==
    {"validated", "geocoded", "places_count", "filtered_count", "max_distance_km",
     "weather_days", "ranked", "itinerary_generated"}

\* the metadata a stage is given is the metadata the stage before returned
MetadataReplaced(r) ==
    \A i \in 2..Len(log[r]) :
        log[r][i].input.metadata = Val(log[r][i - 1].output).metadata

\* the facade's metadata is the last stage's, and only that
OnlyCostAnnotations(r) ==
    /\ Val(response[r]).metadata = Val(log[r][Len(log[r])].output).metadata
    /\ DOMAIN Val(response[r]).metadata = {"cost_estimated", "total_cost"}
    /\ DOMAIN Val(response[r]).metadata \cap EarlierAnnotations = {}

\* C24: metadata is not accumulated across stages: each stage's returned
\* metadata replaces the previous one, so on a successful run the metadata
\* the facade returns has exactly cost_estimated and total_cost, and none of
\* the annotations of the earlier stages.
MetadataNotAccumulated ==
    \A r \in Runs :
        /\ MetadataReplaced(r)
        /\ (IsSome(response[r]) /\ Val(response[r]).success) => OnlyCostAnnotations(r)

\* a successful run whose earlier stages each returned annotations
MetadataNotAccumulatedWitness ==
    \E r \in Runs :
        /\ IsSome(response[r])
        /\ Val(response[r]).success
        /\ \A i \in 1..6 :
              /\ DOMAIN Val(log[r][i].output).metadata # {}
              /\ DOMAIN Val(log[r][i].output).metadata \subseteq EarlierAnnotations

\* the times of a day's activities, as digits of HH:MM
ClaimedTimes == <<<<0, 9, 0, 0>>, <<1, 2, 0, 0>>, <<1, 5, 0, 0>>, <<1, 8, 0, 0>>>>

\* the activities of a day: at most four, at the claimed times, and the
\* hour computed after the last one is still an hour of the day
DayWithinHours(activities) ==
    /\ Len(activities) <= 4
    /\ \A i \in 1..Len(activities) :
          /\ i <= Len(ClaimedTimes)
          /\ activities[i].time = ClaimedTimes[i]
          /\ ParseHour(activities[i].time) + 3 < 24

\* every day within hours, and all days with as many activities
DaysEven(days) ==
    /\ \A d \in 1..Len(days) : DayWithinHours(days[d].activities)
    /\ \A d1, d2 \in 1..Len(days) :
          Len(days[d1].activities) = Len(days[d2].activities)

\* C25: in every itinerary the Schedule stage builds each day has at most 4
\* activities and all days have the same number of them, so the activity
\* times are 09:00, 12:00, 15:00, 18:00 in that order within a day and the
\* computed hour never reaches 24.
DaysEvenWithinHours ==
    \A e \in StageCalls("ItineraryPlanner") :
        Val(e.output).success => DaysEven(Val(Val(e.output).data.itinerary).days)

\* an itinerary of several days of four activities each, the last at 18:00
DaysEvenWithinHoursWitness ==
    \E e \in StageCalls("ItineraryPlanner") :
        /\ Val(e.output).success
        /\ Len(Val(Val(e.output).data.itinerary).days) > 1
        /\ \A d \in 1..Len(Val(Val(e.output).data.itinerary).days) :
              /\ Len(Val(Val(e.output).data.itinerary).days[d].activities) = 4
              /\ Val(Val(e.output).data.itinerary).days[d].activities[4].time
                    = <<1, 8, 0, 0>>

\* a place without the scores the Rank stage writes
Unscored(place) == [place EXCEPT !.relevance_score = 0, !.popularity_score = 0]
UnscoredAll(places) == [i \in 1..Len(places) |-> Unscored(places[i])]

\* how often x is in the list
CountIn(places, x) == Cardinality({i \in 1..Len(places) : places[i] = x})

\* the same places, each as often, in any order
SamePlaces(out, given) ==
    /\ Len(out) = Len(given)
    /\ \A i \in 1..Len(given) : CountIn(out, given[i]) = CountIn(given, given[i])

\* C26: the Rank stage only reorders and rescores: on every path (parsed
\* scores, unparseable response, collaborator fault) and for any number of
\* candidates, more than 30 included, the places it returns are a
\* permutation of the places it was given, none added and none dropped.
RankPermutes ==
    \A e \in StageCalls("PlaceRanker") :
        Val(e.output).success
            => SamePlaces(UnscoredAll(Val(e.output).data.places),
                          UnscoredAll(e.input.data.places))

\* more than 30 candidates, an unparseable response, and an order changed
RankPermutesWitness ==
    \E e \in StageCalls("PlaceRanker") :
        /\ Val(e.output).success
        /\ e.world.llm = "prose"
        /\ Len(e.input.data.places) > PromptLimit
        /\ UnscoredAll(Val(e.output).data.places) # UnscoredAll(e.input.data.places)

====
